---- MODULE Spec2Model ----
(***************************************************************************)
(* A model of utils/gdrive_downloader.py (class GDriveDownloader): the     *)
(* public operations download, extract, download_and_extract and           *)
(* cleanup_cache acting on a file system, with the transfer capability     *)
(* (gdown.download), the archive reader (zipfile), the metadata probe      *)
(* (requests.head) and the file system's own failures as the environment.  *)
(* Every file-system access of an operation is one atomic step, so that    *)
(* overlapping calls interleave between accesses.                          *)
(***************************************************************************)
EXTENDS Integers, Sequences, FiniteSets, TLC

VARIABLES
    fs,     \* path -> file record: what is on disk
    dirs,   \* the directories that exist
    dest,   \* names of the entries in the extraction directory
    clock,  \* time.time(), in ticks
    call    \* call slot -> the call's arguments, position, locals and result

vars == <<fs, dirs, dest, clock, call>>

----------------------------------------------------------------------------
\* Bounds of the model.

MaxThreads == 2     \* threads that call into one downloader
MaxClock == 1       \* ticks the clock advances
TicksPerSec == 1    \* clock resolution: ticks in one second of time.time()
MaxEntries == 1     \* entries of a downloaded zip archive
MaxUrlLen == 4      \* tokens of a source URL

\* Program constants.
SecondsPerDay == 86400

Procs == 1..MaxThreads

----------------------------------------------------------------------------
\* Strings.  A URL is a sequence of tokens; the substrings the code looks
\* for are tokens of their own.  A message is a sequence of strings, so that
\* an f-string is a concatenation.

HostTok == "drive.google.com"
FileTok == "file/d/"
IdTok == "id="
SlashTok == "/"
AmpTok == "&"
UrlTokens == {HostTok, FileTok, IdTok, SlashTok, AmpTok, "A"}

NoneMime == "<None>"

RECURSIVE SeqsUpTo(_, _)
SeqsUpTo(S, n) ==
    IF n = 0 THEN {<<>>}
    ELSE LET shorter == SeqsUpTo(S, n - 1)
         IN shorter \cup {Append(s, x) : s \in shorter, x \in S}

Contains(s, tok) == \E i \in 1..Len(s) : s[i] = tok

\* str.split(sep): the segments of s between the occurrences of sep.
RECURSIVE Split(_, _)
Split(s, sep) ==
    IF ~Contains(s, sep) THEN <<s>>
    ELSE LET i == CHOOSE k \in 1..Len(s) :
                      s[k] = sep /\ \A j \in 1..(k - 1) : s[j] # sep
         IN <<SubSeq(s, 1, i - 1)>> \o Split(SubSeq(s, i + 1, Len(s)), sep)

\* f"https://drive.google.com/uc?id={file_id}"
DirectUrl(file_id) == <<"https://", HostTok, "/uc?", IdTok>> \o file_id

\* ResolveUrl with the identifier not cut at the separator that ends it.
ResolveUrlUncut(gdrive_url) ==
    IF Contains(gdrive_url, HostTok)
    THEN IF Contains(gdrive_url, FileTok)
         THEN [ok |-> TRUE, url |-> DirectUrl(Split(gdrive_url, FileTok)[2])]
         ELSE IF Contains(gdrive_url, IdTok)
         THEN [ok |-> TRUE, url |-> DirectUrl(Split(gdrive_url, IdTok)[2])]
         ELSE [ok |-> FALSE, url |-> <<>>]
    ELSE [ok |-> TRUE, url |-> gdrive_url]

\* Lines 124-134 of download: the URL handed to the transfer, or no URL.
ResolveUrl(gdrive_url) ==
    IF Contains(gdrive_url, HostTok)
    THEN IF Contains(gdrive_url, FileTok)
         THEN [ok |-> TRUE,
               url |-> DirectUrl(Split(Split(gdrive_url, FileTok)[2], SlashTok)[1])]
         ELSE IF Contains(gdrive_url, IdTok)
         THEN [ok |-> TRUE,
               url |-> DirectUrl(Split(Split(gdrive_url, IdTok)[2], AmpTok)[1])]
         ELSE [ok |-> FALSE, url |-> <<>>]
    ELSE [ok |-> TRUE, url |-> gdrive_url]

----------------------------------------------------------------------------
\* MIME types.

MIME_TYPES ==
    [zip |-> {"application/zip", "application/x-zip-compressed"},
     tar |-> {"application/x-tar"},
     gzip |-> {"application/gzip", "application/x-gzip"},
     sevenz |-> {"application/x-7z-compressed"},
     rar |-> {"application/x-rar-compressed"}]

\* _is_compressed_file as it would be if only the zip family counted.
is_zip_file(mime_type) ==
    IF mime_type = NoneMime \/ mime_type = ""
    THEN FALSE
    ELSE mime_type \in MIME_TYPES.zip

is_compressed_file(mime_type) ==
    IF mime_type = NoneMime \/ mime_type = ""
    THEN FALSE
    ELSE \E family \in DOMAIN MIME_TYPES : mime_type \in MIME_TYPES[family]

\* mimetypes.guess_type(name)[0]: by the last extension of the file name (a
\* name is its dot-separated parts); nothing for a name without extension.
guess_type(name) ==
    IF Len(name) < 2 THEN NoneMime
    ELSE LET ext == name[Len(name)]
         IN CASE ext = "zip" -> "application/zip"
              [] ext = "tar" -> "application/x-tar"
              [] ext = "txt" -> "text/plain"
              [] OTHER -> NoneMime

\* What the metadata probe (requests.head(...).headers.get('content-type'))
\* may answer; NoneMime also stands for a probe that raised.
ProbeAnswers == {NoneMime, "text/html", "application/zip"}

----------------------------------------------------------------------------
\* The file system.

CacheDir == "cache"
OutDir == "out"
DestDir == "dest"

\* f"temp_{int(time.time())}.zip"
TempStems == <<"temp_0", "temp_1", "temp_2", "temp_3", "temp_4", "temp_5">>
TempZip(now) == <<CacheDir, <<TempStems[(now \div TicksPerSec) + 1], "zip">>>>

TempPaths == {TempZip(t) : t \in 0..(MaxClock + 1)}

NoFile == [kind |-> "none", size |-> 0, valid |-> FALSE, n |-> 0, mtime |-> 0, by |-> 0]

\* What a transfer may write: a zero-length file, bytes that are no zip
\* archive, or a zip archive of n entries.
Contents ==
    {[size |-> 0, valid |-> FALSE, n |-> 0], [size |-> 1, valid |-> FALSE, n |-> 0]}
    \cup {[size |-> 1, valid |-> TRUE, n |-> k] : k \in 0..MaxEntries}

FileOf(c, now, p) ==
    [kind |-> "file", size |-> c.size, valid |-> c.valid, n |-> c.n, mtime |-> now, by |-> p]

EntryNames == <<"a", "b", "c", "d">>
Entries(n) == {EntryNames[i] : i \in 1..n}

Exists(path) == fs[path].kind # "none"

\* The files the model tracks: the temp archives of download_and_extract,
\* other entries of the cache directory (a name with an extension, a name
\* without a dot, a subdirectory whose name has a dot, a file inside it) and
\* the destinations of a stand-alone download.
SubDir == "cache/sub.d"
SubDirEntry == <<CacheDir, <<"sub", "d">>>>
CachePaths ==
    {<<CacheDir, <<"data", "txt">>>>, <<CacheDir, <<"README">>>>, SubDirEntry}
NestedPaths == {<<SubDir, <<"in", "txt">>>>}
OutPaths == {<<OutDir, <<"ds", "zip">>>>, <<OutDir, <<"ds", "txt">>>>, <<OutDir, <<"ds">>>>}
AllPaths == TempPaths \cup CachePaths \cup NestedPaths \cup OutPaths

EmptyDisk == [path \in AllPaths |-> NoFile]

----------------------------------------------------------------------------
\* Calls.

IdleCall ==
    [op |-> "none", pc |-> "idle",
     url |-> <<>>, path |-> <<OutDir, <<"ds">>>>,
     force |-> FALSE, validate |-> FALSE, remove |-> FALSE, keep |-> FALSE,
     ok |-> FALSE, msg |-> <<>>, mime |-> NoneMime,
     dl |-> "none", ex |-> "none", exmsg |-> <<>>,
     xfer |-> <<>>, resolved |-> FALSE, probes |-> 0,
     exInvoked |-> FALSE, opened |-> FALSE, wrote |-> {}, madeDest |-> FALSE,
     pre |-> NoFile, dest0 |-> {},
     now |-> 0, maxAge |-> 0, todo |-> {}, cur |-> <<>>, deleted |-> {},
     aborted |-> FALSE, err |-> "", xres |-> "none",
     tensor |-> "", device |-> "", non_blocking |-> TRUE,
     log |-> <<>>, e1 |-> "", e2 |-> "", reclaim |-> "none", result |-> <<>>]

Finished(p) == call[p].pc \in {"done", "raised"}
Running(p) == call[p].pc \notin {"idle", "done", "raised"}

\* A thread makes its next call when its last one has returned or raised.
Free(p) == ~Running(p)

\* extract's return, lines 183-216; inside download_and_extract, lines
\* 254-267 follow it.
ExtractReturn(c, ok, msg) ==
    IF c.op = "extract"
    THEN [c EXCEPT !.pc = "done", !.ok = ok, !.msg = msg]
    ELSE IF ok
    THEN [c EXCEPT !.pc = "done", !.ok = TRUE, !.ex = "ok", !.exmsg = msg,
                   !.msg = <<"Download and extraction completed successfully">>]
    ELSE [c EXCEPT !.pc = "x_exists", !.ex = "fail", !.exmsg = msg]

\* download's return, lines 121-156; inside download_and_extract, lines
\* 250-259 follow it.
DownloadReturn(c, ok, msg, mime) ==
    IF c.op = "download"
    THEN [c EXCEPT !.pc = "done", !.ok = ok, !.msg = msg, !.mime = mime]
    ELSE IF ~ok
    THEN [c EXCEPT !.pc = "done", !.ok = FALSE, !.dl = "fail", !.mime = mime,
                   !.msg = <<"Download phase failed: ">> \o msg]
    ELSE [c EXCEPT !.pc = "e_begin", !.dl = "ok", !.mime = mime,
                   !.remove = ~c.keep, !.exInvoked = TRUE]

\* _get_mime_type as it would be if the probe alone decided.
get_mime_type_by_probe(name, answer) == answer

\* _get_mime_type(url), lines 64-75: by the name, and only when the name
\* says nothing by the probe, whose failure is swallowed.
get_mime_type(name, answer) ==
    IF guess_type(name) # NoneMime /\ guess_type(name) # ""
    THEN guess_type(name)
    ELSE answer

Probed(name) == guess_type(name) = NoneMime \/ guess_type(name) = ""

----------------------------------------------------------------------------
\* download, lines 95-156.

\* The start of a stand-alone download(gdrive_url, output_path, ...).
StartDownload(p, urls, paths) ==
    /\ Free(p)
    /\ \E url \in urls, path \in paths, force \in BOOLEAN, validate \in BOOLEAN :
         call' = [call EXCEPT ![p] =
                    [IdleCall EXCEPT !.op = "download", !.pc = "d_begin",
                                     !.url = url, !.path = path, !.force = force,
                                     !.validate = validate, !.pre = fs[path]]]
    /\ UNCHANGED <<fs, dirs, dest, clock>>

\* DownloadBegin short-circuiting only on an existing file that is not empty.
DownloadBeginChecksSize(p) ==
    LET c == call[p]
        parent == c.path[1]
        proceed ==
            IF ~c.force /\ Exists(c.path) /\ fs[c.path].size > 0
            THEN DownloadReturn(c, TRUE, <<"File already exists">>, guess_type(c.path[2]))
            ELSE [c EXCEPT !.pc = "d_fetch"]
    IN /\ c.pc = "d_begin"
       /\ IF parent \in dirs
          THEN /\ call' = [call EXCEPT ![p] = proceed]
               /\ UNCHANGED dirs
          ELSE \E mkdirFails \in BOOLEAN :
                 IF mkdirFails
                 THEN /\ call' = [call EXCEPT ![p] =
                            DownloadReturn(c, FALSE, <<"Download failed: ", "OSError">>, NoneMime)]
                      /\ UNCHANGED dirs
                 ELSE /\ call' = [call EXCEPT ![p] = proceed]
                      /\ dirs' = dirs \cup {parent}
       /\ UNCHANGED <<fs, dest, clock>>

\* Lines 115-121: create the parent directory, then the exists/force test.
DownloadBegin(p) ==
    LET c == call[p]
        parent == c.path[1]
        proceed ==
            IF ~c.force /\ Exists(c.path)
            THEN DownloadReturn(c, TRUE, <<"File already exists">>, guess_type(c.path[2]))
            ELSE [c EXCEPT !.pc = "d_fetch"]
    IN /\ c.pc = "d_begin"
       /\ IF parent \in dirs
          THEN /\ call' = [call EXCEPT ![p] = proceed]
               /\ UNCHANGED dirs
          ELSE \E mkdirFails \in BOOLEAN :
                 IF mkdirFails
                 THEN /\ call' = [call EXCEPT ![p] =
                            DownloadReturn(c, FALSE, <<"Download failed: ", "OSError">>, NoneMime)]
                      /\ UNCHANGED dirs
                 ELSE /\ call' = [call EXCEPT ![p] = proceed]
                      /\ dirs' = dirs \cup {parent}
       /\ UNCHANGED <<fs, dest, clock>>

\* Lines 123-141: resolve the URL and run the transfer (gdown.download),
\* which writes the file and reports success, reports success having
\* written nothing, reports failure, or raises.
DownloadFetch(p) ==
    LET c == call[p]
        r == ResolveUrl(c.url)
        tried == [c EXCEPT !.resolved = TRUE, !.xfer = <<r.url>>]
    IN /\ c.pc = "d_fetch"
       /\ IF ~r.ok
          THEN /\ call' = [call EXCEPT ![p] =
                     DownloadReturn([c EXCEPT !.resolved = TRUE], FALSE,
                                    <<"Invalid Google Drive URL format">>, NoneMime)]
               /\ UNCHANGED fs
          ELSE \E outcome \in {"written", "nothing", "failed", "raised"} :
                 CASE outcome = "written" ->
                        \E content \in Contents :
                          /\ fs' = [fs EXCEPT ![c.path] = FileOf(content, clock, p)]
                          /\ call' = [call EXCEPT ![p] =
                                [tried EXCEPT !.pc = "d_validate", !.xres = "ok"]]
                   [] outcome = "nothing" ->
                        /\ call' = [call EXCEPT ![p] =
                              [tried EXCEPT !.pc = "d_validate", !.xres = "ok"]]
                        /\ UNCHANGED fs
                   [] outcome = "failed" ->
                        /\ call' = [call EXCEPT ![p] =
                              DownloadReturn([tried EXCEPT !.xres = "failed"], FALSE,
                                             <<"Download failed">>, NoneMime)]
                        /\ UNCHANGED fs
                   [] outcome = "raised" ->
                        /\ call' = [call EXCEPT ![p] =
                              DownloadReturn([tried EXCEPT !.xres = "raised"], FALSE,
                                             <<"Download failed: ", "TransferError">>, NoneMime)]
                        /\ UNCHANGED fs
       /\ UNCHANGED <<dirs, dest, clock>>

\* DownloadedFileBad without the size test.
DownloadedFileMissing(f) == f.kind = "none"

\* Line 144: whether the downloaded file passes the exists/size test.
DownloadedFileBad(f) == f.kind = "none" \/ f.size = 0

\* Lines 143-152 as they would be if the MIME type were validated whether
\* or not validate_compression was asked.
DownloadValidateAlways(p) ==
    LET c == call[p]
        f == fs[c.path]
        name == c.path[2]
    IN /\ c.pc = "d_validate"
       /\ \E statFails \in BOOLEAN, answer \in ProbeAnswers :
            LET mime_type == get_mime_type(name, answer)
                c2 == IF Probed(name) THEN [c EXCEPT !.probes = @ + 1] ELSE c
            IN /\ f.kind = "none" => ~statFails
               /\ Probed(name) \/ answer = NoneMime
               /\ call' = [call EXCEPT ![p] =
                    IF statFails
                    THEN DownloadReturn(c, FALSE, <<"Download failed: ", "OSError">>, NoneMime)
                    ELSE IF DownloadedFileBad(f)
                    THEN DownloadReturn(c, FALSE,
                             <<"Downloaded file is empty or missing">>, NoneMime)
                    ELSE IF ~is_compressed_file(mime_type)
                    THEN DownloadReturn(c2, FALSE,
                             <<"Downloaded file is not a compressed archive">>, mime_type)
                    ELSE DownloadReturn(c2, TRUE, <<"Download successful">>, mime_type)]
       /\ UNCHANGED <<fs, dirs, dest, clock>>

\* Lines 143-152: the downloaded file must exist and not be empty (its stat
\* may raise); then its MIME type is detected and, if asked, validated.
DownloadValidate(p) ==
    LET c == call[p]
        f == fs[c.path]
        name == c.path[2]
    IN /\ c.pc = "d_validate"
       /\ \E statFails \in BOOLEAN, answer \in ProbeAnswers :
            LET mime_type == get_mime_type(name, answer)
                c2 == IF Probed(name) THEN [c EXCEPT !.probes = @ + 1] ELSE c
            IN /\ f.kind = "none" => ~statFails
               /\ Probed(name) \/ answer = NoneMime
               /\ call' = [call EXCEPT ![p] =
                    IF statFails
                    THEN DownloadReturn(c, FALSE, <<"Download failed: ", "OSError">>, NoneMime)
                    ELSE IF DownloadedFileBad(f)
                    THEN DownloadReturn(c, FALSE,
                             <<"Downloaded file is empty or missing">>, NoneMime)
                    ELSE IF c.validate /\ ~is_compressed_file(mime_type)
                    THEN DownloadReturn(c2, FALSE,
                             <<"Downloaded file is not a compressed archive">>, mime_type)
                    ELSE DownloadReturn(c2, TRUE, <<"Download successful">>, mime_type)]
       /\ UNCHANGED <<fs, dirs, dest, clock>>

----------------------------------------------------------------------------
\* extract, lines 158-216.

\* The start of a stand-alone extract(archive_path, extract_path, ...).
StartExtract(p, paths) ==
    /\ Free(p)
    /\ \E path \in paths, remove \in BOOLEAN :
         call' = [call EXCEPT ![p] =
                    [IdleCall EXCEPT !.op = "extract", !.pc = "e_begin", !.path = path,
                                     !.remove = remove, !.exInvoked = TRUE,
                                     !.pre = fs[path], !.dest0 = dest]]
    /\ UNCHANGED <<fs, dirs, dest, clock>>

\* Lines 178-187 as they would be if the name were examined before the
\* archive's existence.
ExtractBeginNameFirst(p) ==
    LET c == call[p]
        checks(d) ==
            IF ~is_compressed_file(guess_type(c.path[2]))
            THEN ExtractReturn(d, FALSE, <<"File is not a compressed archive">>)
            ELSE IF ~Exists(c.path)
            THEN ExtractReturn(d, FALSE, <<"Archive file not found">>)
            ELSE [d EXCEPT !.pc = "e_unzip"]
    IN /\ c.pc = "e_begin"
       /\ IF DestDir \in dirs
          THEN /\ call' = [call EXCEPT ![p] = checks(c)]
               /\ UNCHANGED dirs
          ELSE \E mkdirFails \in BOOLEAN :
                 IF mkdirFails
                 THEN /\ call' = [call EXCEPT ![p] =
                            ExtractReturn(c, FALSE, <<"Extraction failed: ", "OSError">>)]
                      /\ UNCHANGED dirs
                 ELSE /\ call' = [call EXCEPT ![p] = checks([c EXCEPT !.madeDest = TRUE])]
                      /\ dirs' = dirs \cup {DestDir}
       /\ UNCHANGED <<fs, dest, clock>>

\* Lines 178-187: create the destination directory, then the archive must
\* exist and its name must be an archive's.
ExtractBegin(p) ==
    LET c == call[p]
        checks(d) ==
            IF ~Exists(c.path)
            THEN ExtractReturn(d, FALSE, <<"Archive file not found">>)
            ELSE IF ~is_compressed_file(guess_type(c.path[2]))
            THEN ExtractReturn(d, FALSE, <<"File is not a compressed archive">>)
            ELSE [d EXCEPT !.pc = "e_unzip"]
    IN /\ c.pc = "e_begin"
       /\ IF DestDir \in dirs
          THEN /\ call' = [call EXCEPT ![p] = checks(c)]
               /\ UNCHANGED dirs
          ELSE \E mkdirFails \in BOOLEAN :
                 IF mkdirFails
                 THEN /\ call' = [call EXCEPT ![p] =
                            ExtractReturn(c, FALSE, <<"Extraction failed: ", "OSError">>)]
                      /\ UNCHANGED dirs
                 ELSE /\ call' = [call EXCEPT ![p] = checks([c EXCEPT !.madeDest = TRUE])]
                      /\ dirs' = dirs \cup {DestDir}
       /\ UNCHANGED <<fs, dest, clock>>

\* Lines 191-199 as they would be if an entry that already exists in the
\* destination were not overwritten but refused.
ExtractUnzipNoOverwrite(p) ==
    LET c == call[p]
        f == fs[c.path]
    IN /\ c.pc = "e_unzip"
       /\ IF f.kind = "none"
          THEN /\ call' = [call EXCEPT ![p] =
                     ExtractReturn(c, FALSE, <<"Extraction failed: ", "FileNotFoundError">>)]
               /\ UNCHANGED dest
          ELSE IF ~f.valid \/ f.size = 0
          THEN /\ call' = [call EXCEPT ![p] =
                     ExtractReturn([c EXCEPT !.opened = TRUE], FALSE,
                                   <<"Invalid or corrupted zip file">>)]
               /\ UNCHANGED dest
          ELSE IF Entries(f.n) \cap dest # {}
          THEN /\ call' = [call EXCEPT ![p] =
                     ExtractReturn([c EXCEPT !.opened = TRUE], FALSE,
                                   <<"Extraction failed: ", "FileExistsError">>)]
               /\ UNCHANGED dest
          ELSE \E k \in 0..f.n :
                 LET d == [c EXCEPT !.opened = TRUE, !.wrote = Entries(k)]
                 IN /\ dest' = dest \cup Entries(k)
                    /\ call' = [call EXCEPT ![p] =
                         IF k < f.n
                         THEN ExtractReturn(d, FALSE, <<"Extraction failed: ", "OSError">>)
                         ELSE [d EXCEPT !.pc = "e_finish"]]
       /\ UNCHANGED <<fs, dirs, clock>>

\* Lines 191-199: open the archive and extract its entries in order.  The
\* file may be gone by now; bytes that are no zip archive raise BadZipFile;
\* writing an entry may raise after the entries before it were written.
ExtractUnzip(p) ==
    LET c == call[p]
        f == fs[c.path]
    IN /\ c.pc = "e_unzip"
       /\ IF f.kind = "none"
          THEN /\ call' = [call EXCEPT ![p] =
                     ExtractReturn(c, FALSE, <<"Extraction failed: ", "FileNotFoundError">>)]
               /\ UNCHANGED dest
          ELSE IF ~f.valid \/ f.size = 0
          THEN /\ call' = [call EXCEPT ![p] =
                     ExtractReturn([c EXCEPT !.opened = TRUE], FALSE,
                                   <<"Invalid or corrupted zip file">>)]
               /\ UNCHANGED dest
          ELSE \E k \in 0..f.n :
                 LET d == [c EXCEPT !.opened = TRUE, !.wrote = Entries(k)]
                 IN /\ dest' = dest \cup Entries(k)
                    /\ call' = [call EXCEPT ![p] =
                         IF k < f.n
                         THEN ExtractReturn(d, FALSE, <<"Extraction failed: ", "OSError">>)
                         ELSE [d EXCEPT !.pc = "e_finish"]]
       /\ UNCHANGED <<fs, dirs, clock>>

\* Lines 201-210 as they would be if the archive were removed before the
\* destination is examined.
ExtractFinishRemovesFirst(p) ==
    LET c == call[p]
    IN /\ c.pc = "e_finish"
       /\ IF dest = {}
          THEN /\ call' = [call EXCEPT ![p] =
                     ExtractReturn(c, FALSE, <<"No files found after extraction">>)]
               /\ fs' = IF c.remove THEN [fs EXCEPT ![c.path] = NoFile] ELSE fs
          ELSE IF ~c.remove
          THEN /\ call' = [call EXCEPT ![p] =
                     ExtractReturn(c, TRUE, <<"Extraction successful">>)]
               /\ UNCHANGED fs
          ELSE IF ~Exists(c.path)
          THEN /\ call' = [call EXCEPT ![p] =
                     ExtractReturn(c, FALSE, <<"Extraction failed: ", "FileNotFoundError">>)]
               /\ UNCHANGED fs
          ELSE \E unlinkFails \in BOOLEAN :
                 IF unlinkFails
                 THEN /\ call' = [call EXCEPT ![p] =
                            ExtractReturn(c, FALSE, <<"Extraction failed: ", "OSError">>)]
                      /\ UNCHANGED fs
                 ELSE /\ call' = [call EXCEPT ![p] =
                            ExtractReturn(c, TRUE, <<"Extraction successful">>)]
                      /\ fs' = [fs EXCEPT ![c.path] = NoFile]
       /\ UNCHANGED <<dirs, dest, clock>>

\* Lines 201-210: the destination must not be empty; then the archive is
\* removed if asked (unlink raises when the file is gone or cannot be
\* deleted), and extract succeeds.
ExtractFinish(p) ==
    LET c == call[p]
    IN /\ c.pc = "e_finish"
       /\ IF dest = {}
          THEN /\ call' = [call EXCEPT ![p] =
                     ExtractReturn(c, FALSE, <<"No files found after extraction">>)]
               /\ UNCHANGED fs
          ELSE IF ~c.remove
          THEN /\ call' = [call EXCEPT ![p] =
                     ExtractReturn(c, TRUE, <<"Extraction successful">>)]
               /\ UNCHANGED fs
          ELSE IF ~Exists(c.path)
          THEN /\ call' = [call EXCEPT ![p] =
                     ExtractReturn(c, FALSE, <<"Extraction failed: ", "FileNotFoundError">>)]
               /\ UNCHANGED fs
          ELSE \E unlinkFails \in BOOLEAN :
                 IF unlinkFails
                 THEN /\ call' = [call EXCEPT ![p] =
                            ExtractReturn(c, FALSE, <<"Extraction failed: ", "OSError">>)]
                      /\ UNCHANGED fs
                 ELSE /\ call' = [call EXCEPT ![p] =
                            ExtractReturn(c, TRUE, <<"Extraction successful">>)]
                      /\ fs' = [fs EXCEPT ![c.path] = NoFile]
       /\ UNCHANGED <<dirs, dest, clock>>

----------------------------------------------------------------------------
\* download_and_extract, lines 218-267.

\* Line 240: the call starts by naming its temp archive after the clock;
\* lines 243-248 then run download on it with validate_compression=True.
StartDownloadAndExtract(p, urls) ==
    /\ Free(p)
    /\ \E url \in urls, keep_zip \in BOOLEAN, force \in BOOLEAN :
         call' = [call EXCEPT ![p] =
                    [IdleCall EXCEPT !.op = "download_and_extract", !.pc = "d_begin",
                                     !.url = url, !.path = TempZip(clock),
                                     !.keep = keep_zip, !.force = force,
                                     !.validate = TRUE, !.pre = fs[TempZip(clock)]]]
    /\ UNCHANGED <<fs, dirs, dest, clock>>

\* FailureCleanupCheck leaving the archive in place when keep_zip was asked.
FailureCleanupCheckKeepsKept(p) ==
    LET c == call[p]
    IN /\ c.pc = "x_exists"
       /\ call' = [call EXCEPT ![p] =
            IF Exists(c.path) /\ ~c.keep
            THEN [c EXCEPT !.pc = "x_unlink"]
            ELSE [c EXCEPT !.pc = "done", !.ok = FALSE,
                           !.msg = <<"Extraction phase failed: ">> \o c.exmsg]]
       /\ UNCHANGED <<fs, dirs, dest, clock>>

\* Lines 261-265, after a failed extraction: line 263, temp_zip.exists().
FailureCleanupCheck(p) ==
    LET c == call[p]
    IN /\ c.pc = "x_exists"
       /\ call' = [call EXCEPT ![p] =
            IF Exists(c.path)
            THEN [c EXCEPT !.pc = "x_unlink"]
            ELSE [c EXCEPT !.pc = "done", !.ok = FALSE,
                           !.msg = <<"Extraction phase failed: ">> \o c.exmsg]]
       /\ UNCHANGED <<fs, dirs, dest, clock>>

\* Line 264, temp_zip.unlink(), outside any try: it raises out of
\* download_and_extract when the file is gone or cannot be deleted.
FailureCleanupUnlink(p) ==
    LET c == call[p]
    IN /\ c.pc = "x_unlink"
       /\ IF ~Exists(c.path)
          THEN /\ call' = [call EXCEPT ![p] =
                     [c EXCEPT !.pc = "raised", !.err = "FileNotFoundError"]]
               /\ UNCHANGED fs
          ELSE \E unlinkFails \in BOOLEAN :
                 IF unlinkFails
                 THEN /\ call' = [call EXCEPT ![p] =
                            [c EXCEPT !.pc = "raised", !.err = "OSError"]]
                      /\ UNCHANGED fs
                 ELSE /\ call' = [call EXCEPT ![p] =
                            [c EXCEPT !.pc = "done", !.ok = FALSE,
                                      !.msg = <<"Extraction phase failed: ">> \o c.exmsg]]
                      /\ fs' = [fs EXCEPT ![c.path] = NoFile]
       /\ UNCHANGED <<dirs, dest, clock>>

----------------------------------------------------------------------------
\* cleanup_cache, lines 269-278.

\* self.cache_dir.glob("*.*"): the entries directly under the cache
\* directory whose name has a dot; nothing when the directory is missing.
Glob ==
    IF CacheDir \in dirs
    THEN {path \in AllPaths : path[1] = CacheDir /\ Exists(path) /\ Len(path[2]) >= 2}
    ELSE {}

\* Line 274: (current_time - st_mtime) > (max_age_days * 86400), in ticks.
Expired(now, mtime, max_age_days) ==
    (now - mtime) > (max_age_days * SecondsPerDay * TicksPerSec)

\* Lines 272-273: read the clock and list the directory.
StartCleanupCache(p, ages) ==
    /\ Free(p)
    /\ \E max_age_days \in ages :
         call' = [call EXCEPT ![p] =
                    [IdleCall EXCEPT !.op = "cleanup_cache",
                                     !.pc = IF Glob = {} THEN "done" ELSE "j_stat",
                                     !.maxAge = max_age_days, !.now = clock,
                                     !.todo = Glob]]
    /\ UNCHANGED <<fs, dirs, dest, clock>>

\* Line 274 for the next listed entry, in the directory's order: stat it
\* (which raises when it is gone or cannot be read) and compare its age.
\* An exception ends the sweep (lines 277-278).
SweepStat(p) ==
    LET c == call[p]
    IN /\ c.pc = "j_stat"
       /\ \E path \in c.todo, statFails \in BOOLEAN :
            LET rest == c.todo \ {path}
            IN /\ ~Exists(path) => ~statFails
               /\ call' = [call EXCEPT ![p] =
                    IF ~Exists(path) \/ statFails
                    THEN [c EXCEPT !.pc = "done", !.aborted = TRUE,
                                   !.err = IF Exists(path) THEN "OSError"
                                           ELSE "FileNotFoundError"]
                    ELSE IF Expired(c.now, fs[path].mtime, c.maxAge)
                    THEN [c EXCEPT !.pc = "j_unlink", !.cur = <<path>>]
                    ELSE [c EXCEPT !.todo = rest,
                                   !.pc = IF rest = {} THEN "done" ELSE "j_stat"]]
       /\ UNCHANGED <<fs, dirs, dest, clock>>

\* Line 275: unlink the entry, which raises when it is gone, is a directory
\* or cannot be deleted; an exception ends the sweep.
SweepUnlink(p) ==
    LET c == call[p]
        path == c.cur[1]
        rest == c.todo \ {path}
    IN /\ c.pc = "j_unlink"
       /\ \E unlinkFails \in BOOLEAN :
            /\ fs[path].kind # "file" => ~unlinkFails
            /\ IF fs[path].kind # "file" \/ unlinkFails
               THEN /\ call' = [call EXCEPT ![p] =
                          [c EXCEPT !.pc = "done", !.aborted = TRUE, !.cur = <<>>,
                                    !.err = CASE fs[path].kind = "none" -> "FileNotFoundError"
                                              [] fs[path].kind = "dir" -> "IsADirectoryError"
                                              [] OTHER -> "OSError"]]
                    /\ UNCHANGED fs
               ELSE /\ call' = [call EXCEPT ![p] =
                          [c EXCEPT !.todo = rest, !.cur = <<>>,
                                    !.deleted = @ \cup {<<path, fs[path].mtime>>},
                                    !.pc = IF rest = {} THEN "done" ELSE "j_stat"]]
                    /\ fs' = [fs EXCEPT ![path] = NoFile]
       /\ UNCHANGED <<dirs, dest, clock>>

----------------------------------------------------------------------------
\* The clock.

Tick ==
    /\ clock < MaxClock
    /\ clock' = clock + 1
    /\ UNCHANGED <<fs, dirs, dest, call>>

\* _is_compressed_file(mime_type) called on its own, lines 77-93.

\* The arguments tried: None, the empty string, the MIME strings of the
\* table, other MIME types, and strings that differ from a listed one in
\* case, blanks, parameters or a missing part.
MimeArguments ==
    {NoneMime, ""}
    \cup {"application/zip", "application/x-zip-compressed", "application/x-tar",
          "application/gzip", "application/x-gzip", "application/x-7z-compressed",
          "application/x-rar-compressed"}
    \cup {"text/plain", "text/html", "text/csv", "text/xml", "application/json",
          "application/pdf", "application/octet-stream", "image/png", "image/jpeg",
          "image/gif", "video/mp4", "audio/mpeg", "multipart/form-data",
          "application/vnd.rar", "application/x-bzip2", "application/x-xz",
          "application/zstd", "application/x-compress", "application/x-lzma",
          "application/java-archive", "application/epub+zip",
          "application/vnd.ms-cab-compressed", "application/x-iso9660-image",
          "application/x-gtar", "application/x-tgz", "application/x-rar",
          "application/x-zip", "application/x-7z", "application/x-tar-compressed",
          "application/gzip-compressed"}
    \cup {"Application/Zip", "APPLICATION/ZIP", "application/ZIP", " application/zip",
          "application/zip ", "application/zip; charset=binary",
          "application/zip;charset=utf-8", "application/x-gzip; q=1",
          "application/zip,application/x-tar", "application/", "application",
          "zip", "tar", "gzip", "7z", "rar", "None"}

StartIsCompressedFile(p, mimes) ==
    /\ Free(p)
    /\ \E mime_type \in mimes :
         call' = [call EXCEPT ![p] =
                    [IdleCall EXCEPT !.op = "_is_compressed_file", !.pc = "m_check",
                                     !.mime = mime_type]]
    /\ UNCHANGED <<fs, dirs, dest, clock>>

\* Lines 87-93: the answer.
IsCompressedFileReturn(p) ==
    LET c == call[p]
    IN /\ c.pc = "m_check"
       /\ call' = [call EXCEPT ![p] =
                     [c EXCEPT !.pc = "done", !.ok = is_compressed_file(c.mime)]]
       /\ UNCHANGED <<fs, dirs, dest, clock>>

\* safe_to_device and MemoryTracker.clear_memory, memory_tracker.py lines
\* 16-44.  A call records in log the transfers it attempted and the memory
\* reclaims it ran, in order.

Tensors == {"image_batch", "label_batch"}
Devices == {"cpu", "cuda"}
\* What str(e) of a RuntimeError raised by tensor.to may be.
RuntimeErrors == {"CUDA out of memory", "CUDA error: device-side assert"}

ToEvent(non_blocking) == IF non_blocking THEN "to(non_blocking=True)" ELSE "to(non_blocking=False)"
CompositeError(e) ==
    <<"Failed to move tensor to device even after memory cleanup: ", e>>

\* The start of safe_to_device(tensor, device, non_blocking), line 35.
StartSafeToDevice(p) ==
    /\ Free(p)
    /\ \E tensor \in Tensors, device \in Devices, non_blocking \in BOOLEAN :
         call' = [call EXCEPT ![p] =
                    [IdleCall EXCEPT !.op = "safe_to_device", !.pc = "t_first",
                                     !.tensor = tensor, !.device = device,
                                     !.non_blocking = non_blocking]]
    /\ UNCHANGED <<fs, dirs, dest, clock>>

\* Lines 37-39: the first transfer, with the caller's non_blocking; its
\* result is returned, or its RuntimeError is caught.
TransferFirst(p) ==
    LET c == call[p]
        d == [c EXCEPT !.log = Append(@, ToEvent(c.non_blocking))]
    IN /\ c.pc = "t_first"
       /\ \E outcome \in {"moved"} \cup RuntimeErrors :
            call' = [call EXCEPT ![p] =
                       IF outcome = "moved"
                       THEN [d EXCEPT !.pc = "done", !.ok = TRUE,
                                      !.result = <<c.tensor, c.device>>]
                       ELSE [d EXCEPT !.pc = "t_clear", !.e1 = outcome]]
       /\ UNCHANGED <<fs, dirs, dest, clock>>

\* Line 40 and lines 19-33: clear_memory empties the CUDA cache when CUDA
\* is available and collects garbage; an exception inside it is printed and
\* swallowed.
ClearMemory(p) ==
    LET c == call[p]
    IN /\ c.pc = "t_clear"
       /\ \E outcome \in {"cache emptied", "no cuda", "error printed"} :
            call' = [call EXCEPT ![p] =
                       [c EXCEPT !.pc = "t_retry", !.reclaim = outcome,
                                 !.log = Append(@, "clear_memory")]]
       /\ UNCHANGED <<fs, dirs, dest, clock>>

\* Lines 41-44 as they would be if the composite error carried the message
\* of the retry's failure.
TransferRetryReportsLast(p) ==
    LET c == call[p]
        d == [c EXCEPT !.log = Append(@, ToEvent(FALSE))]
    IN /\ c.pc = "t_retry"
       /\ \E outcome \in {"moved"} \cup RuntimeErrors :
            call' = [call EXCEPT ![p] =
                       IF outcome = "moved"
                       THEN [d EXCEPT !.pc = "done", !.ok = TRUE,
                                      !.result = <<c.tensor, c.device>>]
                       ELSE [d EXCEPT !.pc = "raised", !.e2 = outcome,
                                      !.msg = CompositeError(outcome)]]
       /\ UNCHANGED <<fs, dirs, dest, clock>>

\* Lines 41-44: the blocking retry; its result is returned, or its
\* RuntimeError is replaced by one that carries the first failure's message.
TransferRetry(p) ==
    LET c == call[p]
        d == [c EXCEPT !.log = Append(@, ToEvent(FALSE))]
    IN /\ c.pc = "t_retry"
       /\ \E outcome \in {"moved"} \cup RuntimeErrors :
            call' = [call EXCEPT ![p] =
                       IF outcome = "moved"
                       THEN [d EXCEPT !.pc = "done", !.ok = TRUE,
                                      !.result = <<c.tensor, c.device>>]
                       ELSE [d EXCEPT !.pc = "raised", !.e2 = outcome,
                                      !.msg = CompositeError(c.e1)]]
       /\ UNCHANGED <<fs, dirs, dest, clock>>

----------------------------------------------------------------------------
----------------------------------------------------------------------------
\* Specifications.

\* The inputs of the calls.
SomeUrls ==
    {<<"https://", HostTok, SlashTok, FileTok, "A", SlashTok, "view">>,
     <<"https://", HostTok, SlashTok, "open">>,
     <<"https://", "example.com", SlashTok, "ds.zip">>}
AllUrls == SeqsUpTo(UrlTokens, MaxUrlLen)

NoCalls == [p \in Procs |-> IdleCall]

\* After construction (line 42 creates the cache directory): an empty
\* cache; the extraction directory may exist already and hold an entry.
InitPipeline ==
    /\ fs = EmptyDisk
    /\ \E populated \in {"missing", "empty", "populated"} :
         /\ dirs = IF populated = "missing" THEN {CacheDir} ELSE {CacheDir, DestDir}
         /\ dest = IF populated = "populated" THEN {"old"} ELSE {}
    /\ clock = 0
    /\ call = NoCalls

Steps(p) ==
    \/ DownloadBegin(p)
    \/ DownloadFetch(p)
    \/ DownloadValidate(p)
    \/ ExtractBegin(p)
    \/ ExtractUnzip(p)
    \/ ExtractFinish(p)
    \/ FailureCleanupCheck(p)
    \/ FailureCleanupUnlink(p)

\* A single caller making download_and_extract calls one after another.
Caller == 1

Next ==
    \/ Tick
    \/ StartDownloadAndExtract(Caller, SomeUrls)
    \/ Steps(Caller)

Spec == InitPipeline /\ [][Next]_vars

\* Callers on several threads, each making one call: download_and_extract
\* calls and cleanup_cache sweeps of the same cache directory, overlapping.
RaceUrls == {<<"https://", "example.com", SlashTok, "ds.zip">>}

NextRace ==
    \/ Tick
    \/ \E p \in Procs : call[p].pc = "idle" /\ StartDownloadAndExtract(p, RaceUrls)
    \/ \E p \in Procs : call[p].pc = "idle" /\ StartCleanupCache(p, {0})
    \/ \E p \in Procs : Steps(p)
    \/ \E p \in Procs : SweepStat(p)
    \/ \E p \in Procs : SweepUnlink(p)

SpecRace == InitPipeline /\ [][NextRace]_vars

\* A single caller making download calls one after another.
InitDownload ==
    /\ fs = EmptyDisk
    /\ dirs \in {{CacheDir}, {CacheDir, OutDir}}
    /\ dest = {}
    /\ clock = 0
    /\ call = NoCalls

NextDownload ==
    \/ StartDownload(Caller, SomeUrls, OutPaths)
    \/ DownloadBegin(Caller)
    \/ DownloadFetch(Caller)
    \/ DownloadValidate(Caller)

SpecDownload == InitDownload /\ [][NextDownload]_vars

\* One download call of any source URL.
NextResolve ==
    \/ call[Caller].pc = "idle" /\ StartDownload(Caller, AllUrls, {<<OutDir, <<"ds", "zip">>>>})
    \/ DownloadBegin(Caller)
    \/ DownloadFetch(Caller)
    \/ DownloadValidate(Caller)

SpecResolve == InitDownload /\ [][NextResolve]_vars

\* One cleanup_cache sweep of a cache directory that holds files of several
\* names and ages, or of a cache directory that is missing.
Day == SecondsPerDay * TicksPerSec
DiskWith(path, kind, mtime) ==
    (path :> [kind |-> kind, size |-> 1, valid |-> FALSE, n |-> 0, mtime |-> mtime, by |-> 0])
Absent(path) == (path :> NoFile)

InitSweep ==
    /\ \E root \in BOOLEAN :
         /\ dirs = IF root THEN {CacheDir} ELSE {}
         /\ \E data \in {Absent(<<CacheDir, <<"data", "txt">>>>)} \cup
                        {DiskWith(<<CacheDir, <<"data", "txt">>>>, "file", t) :
                             t \in {-(2 * Day), -Day, 0, 1}},
               readme \in {Absent(<<CacheDir, <<"README">>>>),
                           DiskWith(<<CacheDir, <<"README">>>>, "file", -(2 * Day))},
               temp \in {Absent(TempZip(0)), DiskWith(TempZip(0), "file", -(2 * Day)),
                         DiskWith(TempZip(0), "file", 0)},
               sub \in {Absent(SubDirEntry) @@ Absent(<<SubDir, <<"in", "txt">>>>),
                        DiskWith(SubDirEntry, "dir", -(2 * Day))
                            @@ DiskWith(<<SubDir, <<"in", "txt">>>>, "file", -(2 * Day)),
                        DiskWith(SubDirEntry, "dir", 0)
                            @@ DiskWith(<<SubDir, <<"in", "txt">>>>, "file", -(2 * Day))} :
              fs = IF root THEN data @@ readme @@ temp @@ sub @@ EmptyDisk ELSE EmptyDisk
    /\ dest = {}
    /\ clock = 0
    /\ call = NoCalls

NextSweep ==
    \/ Tick
    \/ call[Caller].pc = "idle" /\ StartCleanupCache(Caller, {0, 1})
    \/ SweepStat(Caller)
    \/ SweepUnlink(Caller)

SpecSweep == InitSweep /\ [][NextSweep]_vars

\* Stand-alone extract calls, one after another, of an archive path that
\* holds nothing, bytes that are no archive, or a zip archive, under a name
\* that is or is not an archive's; the destination directory is missing,
\* empty or populated.
InitExtract ==
    /\ dirs \in {{CacheDir, OutDir}, {CacheDir, OutDir, DestDir}}
    /\ dest \in IF DestDir \in dirs THEN {{}, {"old"}} ELSE {{}}
    /\ fs \in {EmptyDisk} \cup
              {(path :> FileOf(c, 0, 0)) @@ EmptyDisk : path \in OutPaths, c \in Contents}
    /\ clock = 0
    /\ call = NoCalls

NextExtract ==
    \/ StartExtract(Caller, OutPaths)
    \/ ExtractBegin(Caller)
    \/ ExtractUnzip(Caller)
    \/ ExtractFinish(Caller)

SpecExtract == InitExtract /\ [][NextExtract]_vars

\* _is_compressed_file calls, one after another, of a constructed downloader.
NextMime ==
    \/ StartIsCompressedFile(Caller, MimeArguments)
    \/ IsCompressedFileReturn(Caller)

SpecMime == InitDownload /\ [][NextMime]_vars

\* safe_to_device calls, one after another; no downloader is constructed.
InitDevice ==
    /\ fs = EmptyDisk
    /\ dirs = {}
    /\ dest = {}
    /\ clock = 0
    /\ call = NoCalls

NextDevice ==
    \/ StartSafeToDevice(Caller)
    \/ TransferFirst(Caller)
    \/ ClearMemory(Caller)
    \/ TransferRetry(Caller)

SpecDevice == InitDevice /\ [][NextDevice]_vars

----------------------------------------------------------------------------
\* The claims.  A call has returned when its pc is "done" and has let an
\* exception escape when its pc is "raised"; with a single caller the disk
\* at "done" is the disk the call left.

IsPipeline(p) == call[p].op = "download_and_extract"
Returned(p) == call[p].pc = "done"

\* C1: once download_and_extract has returned, its temp archive exists if
\* and only if keep_zip was true and the extraction phase succeeded.
C1_TempArchiveIffKeptAndExtracted ==
    \A p \in Procs :
        (IsPipeline(p) /\ Returned(p))
            => (Exists(call[p].path) <=> (call[p].keep /\ call[p].ex = "ok"))

\* C2: when the download phase of download_and_extract fails, extract was
\* never invoked, nothing was created under the extraction destination, the
\* result is (False, "Download phase failed: ..."), and the cache directory
\* holds no temp archive written by this call.
C2_DownloadFailureLeavesNothing ==
    \A p \in Procs :
        (IsPipeline(p) /\ Returned(p) /\ call[p].dl = "fail")
            => /\ ~call[p].exInvoked
               /\ call[p].wrote = {}
               /\ ~call[p].madeDest
               /\ ~call[p].ok
               /\ call[p].msg[1] = "Download phase failed: "
               /\ Exists(call[p].path) => fs[call[p].path] = call[p].pre

\* C3: when the download phase succeeded and the extraction phase failed,
\* the temp archive does not exist once download_and_extract has returned,
\* whatever keep_zip was, and the message is tagged "Extraction phase
\* failed: ".
C3_ExtractionFailureRemovesTempArchive ==
    \A p \in Procs :
        (IsPipeline(p) /\ Returned(p) /\ call[p].dl = "ok" /\ call[p].ex = "fail")
            => /\ ~Exists(call[p].path)
               /\ ~call[p].ok
               /\ call[p].msg = <<"Extraction phase failed: ">> \o call[p].exmsg

\* C3's case: a call with keep_zip=true fetched a corrupt archive, the
\* extraction failed on it, and the call has returned.
C3_Witness ==
    \E p \in Procs :
        /\ IsPipeline(p) /\ Returned(p)
        /\ call[p].keep
        /\ call[p].xres = "ok"
        /\ call[p].opened
        /\ call[p].exmsg = <<"Invalid or corrupted zip file">>

\* C4: no public operation lets an error escape to its caller.
C4_NoErrorEscapes ==
    \A p \in Procs : call[p].pc # "raised"

\* C5: a deletion that finds its file already removed by the other party is
\* harmless: download_and_extract's failure cleanup does not raise, extract's
\* removal of the archive does not turn an extraction that wrote all the
\* entries into a failure, and a sweep is not aborted by a vanished file.
C5_DeletionsTolerateVanishedFile ==
    \A p \in Procs :
        /\ ~(call[p].pc = "raised" /\ call[p].err = "FileNotFoundError")
        /\ ~(/\ IsPipeline(p)
             /\ call[p].ex = "fail"
             /\ call[p].opened
             /\ call[p].exmsg = <<"Extraction failed: ", "FileNotFoundError">>)
        /\ ~(/\ call[p].op = "cleanup_cache"
             /\ call[p].aborted
             /\ call[p].err = "FileNotFoundError")

\* C6: any two invocations of download_and_extract on the same cache
\* directory use distinct temp archive paths.
C6_DistinctTempPaths ==
    \A p, q \in Procs :
        (p # q /\ IsPipeline(p) /\ IsPipeline(q)) => call[p].path # call[q].path

\* C7: download with force_download=false of a destination that exists
\* returns (True, "File already exists", the MIME type of the file name)
\* without resolving the URL, without a transfer or a probe, and leaves the
\* file as it was.
C7_ExistingFileShortCircuits ==
    \A p \in Procs :
        (/\ call[p].op = "download" /\ Returned(p)
         /\ ~call[p].force
         /\ call[p].pre.kind # "none")
            => /\ call[p].ok
               /\ call[p].msg = <<"File already exists">>
               /\ call[p].mime = guess_type(call[p].path[2])
               /\ ~call[p].resolved
               /\ call[p].xfer = <<>>
               /\ call[p].probes = 0
               /\ fs[call[p].path] = call[p].pre

\* C7's case: an invalid source URL, force_download=false and a destination
\* that exists already (left empty by an earlier download) with a name that
\* has no extension.
C7_Witness ==
    \E p \in Procs :
        /\ call[p].op = "download" /\ Returned(p)
        /\ ~call[p].force
        /\ call[p].url = <<"https://", HostTok, SlashTok, "open">>
        /\ call[p].path = <<OutDir, <<"ds">>>>
        /\ call[p].pre.kind = "file" /\ call[p].pre.size = 0
        /\ call[p].ok

\* C8: when the transfer was attempted and reported failure, or reported
\* success and left the destination missing or zero-length, download
\* returns failure with no MIME type.
C8_BadTransferFailsDownload ==
    \A p \in Procs :
        (/\ call[p].op = "download" /\ Returned(p)
         /\ call[p].xfer # <<>>
         /\ \/ call[p].xres = "failed"
            \/ /\ call[p].xres = "ok"
               /\ fs[call[p].path].kind = "none" \/ fs[call[p].path].size = 0)
            => ~call[p].ok /\ call[p].mime = NoneMime

\* C8's case: the transfer reported success and wrote a zero-length file.
C8_Witness ==
    \E p \in Procs :
        /\ call[p].op = "download" /\ Returned(p)
        /\ call[p].xres = "ok"
        /\ fs[call[p].path].kind = "file" /\ fs[call[p].path].size = 0
        /\ call[p].msg = <<"Downloaded file is empty or missing">>

\* The URL u carries an identifier shape at i..j: the first marker of u is
\* at i and the first stop after it at j, so the identifier lies between.
ShapeAt(u, marker, stop, i, j) ==
    /\ i < j
    /\ u[i] = marker /\ \A k \in 1..(i - 1) : u[k] # marker
    /\ u[j] = stop /\ \A k \in (i + 1)..(j - 1) : u[k] # stop /\ u[k] # marker

\* C9: URL resolution inside download.  For a URL of the host: with
\* file/d/<id>/ the transfer gets the direct URL of exactly <id>; otherwise
\* with id=<id>& it gets the direct URL of <id>; with neither marker the
\* call fails with the invalid-link result and no transfer is made.  A URL
\* not of the host is handed to the transfer unchanged.
C9_UrlResolution ==
    \A p \in Procs :
        LET c == call[p]
            u == c.url
        IN (c.op = "download" /\ c.resolved)
            => /\ \A i, j \in 1..Len(u) :
                    (Contains(u, HostTok) /\ ShapeAt(u, FileTok, SlashTok, i, j))
                        => c.xfer = <<DirectUrl(SubSeq(u, i + 1, j - 1))>>
               /\ \A i, j \in 1..Len(u) :
                    (/\ Contains(u, HostTok) /\ ~Contains(u, FileTok)
                     /\ ShapeAt(u, IdTok, AmpTok, i, j))
                        => c.xfer = <<DirectUrl(SubSeq(u, i + 1, j - 1))>>
               /\ (Contains(u, HostTok) /\ ~Contains(u, FileTok) /\ ~Contains(u, IdTok))
                    => /\ c.xfer = <<>>
                       /\ Returned(p) /\ ~c.ok
                       /\ c.msg = <<"Invalid Google Drive URL format">>
               /\ ~Contains(u, HostTok) => c.xfer = <<u>>

\* C9's case: the identifier A between file/d/ and the next slash, with a
\* further path segment after it, has reached the transfer.
C9_Witness ==
    \E p \in Procs :
        /\ call[p].op = "download"
        /\ call[p].url = <<FileTok, "A", SlashTok, HostTok>>
        /\ call[p].xfer = <<DirectUrl(<<"A">>)>>

\* C10: cleanup_cache(max_age_days=0) deletes every file directly under the
\* cache root, whatever its name and its last-modified time.
C10_SweepZeroDeletesEveryFile ==
    \A p \in Procs :
        (call[p].op = "cleanup_cache" /\ Returned(p) /\ call[p].maxAge = 0)
            => \A path \in AllPaths : path[1] = CacheDir => fs[path].kind # "file"

\* C11: cleanup_cache deletes exactly the files directly under the cache
\* root that are older than max_age_days: when it has returned no file
\* older than that is left there, every file it deleted was older and lay
\* directly under the root, nothing inside a subdirectory was touched, and
\* it did not try to delete a directory.
C11_SweepDeletesExactlyOldFiles ==
    \A p \in Procs :
        (call[p].op = "cleanup_cache" /\ Returned(p))
            => /\ \A path \in AllPaths :
                    (path[1] = CacheDir /\ fs[path].kind = "file")
                        => ~Expired(call[p].now, fs[path].mtime, call[p].maxAge)
               /\ \A d \in call[p].deleted :
                    d[1][1] = CacheDir /\ Expired(call[p].now, d[2], call[p].maxAge)
               /\ \A path \in NestedPaths : Exists(SubDirEntry) => Exists(path)
               /\ call[p].err # "IsADirectoryError"

\* C12: extract of a valid zip archive of N >= 1 entries, under a zip name,
\* that meets no I/O error writes all N entries and returns success, and the
\* destination then holds what it held before plus these N entries; so a
\* second extract of the same archive into the populated destination
\* succeeds too and leaves the destination with the same entries.
IsExtract(p) == call[p].op = "extract"
IoError(msg) == Len(msg) = 2 /\ msg[2] = "OSError"
ZipName(path) == path[2][Len(path[2])] = "zip"

C12_ExtractWritesAllEntriesIdempotently ==
    \A p \in Procs :
        (/\ IsExtract(p) /\ Returned(p)
         /\ call[p].pre.kind = "file" /\ call[p].pre.valid /\ call[p].pre.n >= 1
         /\ ZipName(call[p].path)
         /\ ~IoError(call[p].msg))
            => /\ call[p].ok
               /\ call[p].msg = <<"Extraction successful">>
               /\ call[p].wrote = Entries(call[p].pre.n)
               /\ dest = call[p].dest0 \cup Entries(call[p].pre.n)

\* A second extract of the archive has returned: its entries were in the
\* destination when the call began.
C12_Witness ==
    \E p \in Procs :
        /\ IsExtract(p) /\ Returned(p) /\ call[p].ok
        /\ call[p].pre.valid /\ call[p].pre.n >= 1
        /\ Entries(call[p].pre.n) \subseteq call[p].dest0
        /\ dest = call[p].dest0

\* C13: a download whose transfer reported success and left a non-empty
\* file that could be examined: with validate_compression and a MIME type
\* that is not an archive's it returns the not-a-compressed-archive failure
\* carrying that MIME type, otherwise it returns success; either way the
\* file is left on disk, and the MIME type is the one the name gives when
\* the name gives one.
PassedSizeCheck(p) ==
    /\ call[p].xres = "ok"
    /\ call[p].msg # <<"Downloaded file is empty or missing">>
    /\ ~IoError(call[p].msg)

C13_ValidationFailsOnlyWhenAsked ==
    \A p \in Procs :
        (call[p].op = "download" /\ Returned(p) /\ PassedSizeCheck(p))
            => /\ Exists(call[p].path) /\ fs[call[p].path].size > 0
               /\ guess_type(call[p].path[2]) # NoneMime
                    => call[p].mime = guess_type(call[p].path[2])
               /\ IF call[p].validate /\ ~is_compressed_file(call[p].mime)
                  THEN /\ ~call[p].ok
                       /\ call[p].msg = <<"Downloaded file is not a compressed archive">>
                  ELSE /\ call[p].ok
                       /\ call[p].msg = <<"Download successful">>

\* A validated download of a file named *.txt has failed and left the file.
C13_Witness ==
    \E p \in Procs :
        /\ call[p].op = "download" /\ Returned(p) /\ call[p].validate
        /\ call[p].xres = "ok" /\ ~call[p].ok
        /\ call[p].mime = "text/plain"
        /\ call[p].msg = <<"Downloaded file is not a compressed archive">>
        /\ Exists(call[p].path)

\* The transfers and reclaims a safe_to_device call may have made when its
\* first transfer is the event `first`: a prefix of first, reclaim, blocking
\* retry; the call returns the moved tensor after the first transfer alone
\* (then no reclaim ran) or after all three, and raises only after all
\* three, with the composite error that carries the first failure's message.
IsSafeToDevice(p) == call[p].op = "safe_to_device"
IsPrefix(s, t) == Len(s) <= Len(t) /\ \A i \in 1..Len(s) : s[i] = t[i]
BoundedRetry(p, first) ==
    LET c == call[p]
        full == <<first, "clear_memory", ToEvent(FALSE)>>
    IN /\ IsPrefix(c.log, full)
       /\ c.pc = "done"
            => /\ c.result = <<c.tensor, c.device>>
               /\ \/ c.log = <<first>> /\ c.reclaim = "none"
                  \/ c.log = full /\ c.e1 \in RuntimeErrors
       /\ c.pc = "raised"
            => /\ c.log = full
               /\ c.e1 \in RuntimeErrors
               /\ c.msg = CompositeError(c.e1)

\* C14 as stated: safe_to_device makes at most two transfer attempts, the
\* first of them non-blocking; on a transfer error exactly one memory
\* reclaim and then exactly one blocking retry; the retry's result is
\* returned, or a composite error with the first failure's message is
\* raised; no reclaim when the first attempt succeeds.
C14_FirstAttemptNonBlocking ==
    \A p \in Procs : IsSafeToDevice(p) => BoundedRetry(p, ToEvent(TRUE))

\* C14, amended: the same, with the first attempt made with the caller's
\* non_blocking argument (non-blocking by default) and only the retry
\* always blocking.
C14_BoundedRetry ==
    \A p \in Procs : IsSafeToDevice(p) => BoundedRetry(p, ToEvent(call[p].non_blocking))

\* Both attempts failed, with different messages, and the call raised.
C14_Witness ==
    \E p \in Procs :
        /\ IsSafeToDevice(p) /\ call[p].pc = "raised"
        /\ Len(call[p].log) = 3
        /\ call[p].e2 # call[p].e1

\* C15: _is_compressed_file(mime) answers true exactly for the seven MIME
\* strings of the MIME_TYPES table (zip, tar, gzip, 7z and rar families),
\* and so false for None, for the empty string and for every other string,
\* "text/plain" among them.
ListedArchiveMimes ==
    {"application/zip", "application/x-zip-compressed",
     "application/x-tar",
     "application/gzip", "application/x-gzip",
     "application/x-7z-compressed",
     "application/x-rar-compressed"}

C15_ArchiveIffListed ==
    \A p \in Procs :
        (call[p].op = "_is_compressed_file" /\ Returned(p))
            => /\ call[p].ok <=> call[p].mime \in ListedArchiveMimes
               /\ call[p].mime \in {NoneMime, "", "text/plain"} => ~call[p].ok

\* The call has answered true for the rar family's MIME string.
C15_Witness ==
    \E p \in Procs :
        /\ call[p].op = "_is_compressed_file" /\ Returned(p)
        /\ call[p].mime = "application/x-rar-compressed"
        /\ call[p].ok

\* C16: extract never reports success for an extraction that wrote no
\* entry, and for a zip archive of zero entries it fails with "No files
\* found after extraction", whatever the destination held before.
C16_EmptyExtractionFails ==
    \A p \in Procs :
        (IsExtract(p) /\ Returned(p))
            => /\ call[p].ok => call[p].wrote # {}
               /\ (/\ call[p].pre.kind = "file" /\ call[p].pre.valid /\ call[p].pre.n = 0
                   /\ ZipName(call[p].path)
                   /\ ~IoError(call[p].msg))
                    => /\ ~call[p].ok
                       /\ call[p].msg = <<"No files found after extraction">>

\* C17: the order of extract's checks.  When extract has returned: if the
\* destination directory does not exist, creating it failed and nothing else
\* was done; otherwise a missing archive gave "Archive file not found",
\* whatever its name; an existing file whose name is not an archive's gave
\* "File is not a compressed archive"; in both cases the reader was never
\* opened and no entry written; an archive name over bytes that are no zip
\* archive gave the corrupt-archive failure, also into an empty destination;
\* and only a readable archive reached the empty-extraction check.
ArchiveName(path) == guess_type(path[2]) \in ListedArchiveMimes

C17_ExtractCheckOrder ==
    \A p \in Procs :
        (IsExtract(p) /\ Returned(p))
            => LET c == call[p]
                   untouched == ~c.opened /\ c.wrote = {} /\ dest = c.dest0
               IN IF DestDir \notin dirs
                  THEN ~c.ok /\ IoError(c.msg) /\ untouched
                  ELSE IF c.pre.kind = "none"
                  THEN ~c.ok /\ c.msg = <<"Archive file not found">> /\ untouched
                  ELSE IF ~ArchiveName(c.path)
                  THEN ~c.ok /\ c.msg = <<"File is not a compressed archive">> /\ untouched
                  ELSE IF ~c.pre.valid \/ c.pre.size = 0
                  THEN /\ ~c.ok /\ c.msg = <<"Invalid or corrupted zip file">>
                       /\ c.opened /\ c.wrote = {}
                  ELSE /\ c.opened
                       /\ c.msg = <<"No files found after extraction">>
                            => c.wrote = Entries(c.pre.n) /\ dest = {}

\* A missing archive under a name that is not an archive's: the destination
\* directory was created and the call returned "Archive file not found".
C17_Witness ==
    \E p \in Procs :
        /\ IsExtract(p) /\ Returned(p)
        /\ call[p].pre.kind = "none" /\ ~ArchiveName(call[p].path)
        /\ call[p].madeDest /\ DestDir \in dirs
        /\ call[p].msg = <<"Archive file not found">>

\* C18: with a single caller, extract touches its source archive only as
\* its last step: while the call runs and when it has returned failure the
\* archive is as it was before the call; when it has returned success the
\* archive is absent if remove_archive was true and present, as before, if
\* it was false.
C18_ArchiveRemovedOnlyOnSuccess ==
    \A p \in Procs :
        IsExtract(p)
            => LET c == call[p]
               IN IF Returned(p) /\ c.ok /\ c.remove
                  THEN ~Exists(c.path)
                  ELSE /\ fs[c.path] = c.pre
                       /\ (Returned(p) /\ c.ok) => Exists(c.path)

\* extract of an empty archive with remove_archive=True has failed at the
\* empty-extraction check and the archive is still there.
C18_Witness ==
    \E p \in Procs :
        /\ IsExtract(p) /\ Returned(p) /\ ~call[p].ok /\ call[p].remove
        /\ call[p].msg = <<"No files found after extraction">>
        /\ Exists(call[p].path)

\* C19: inside download_and_extract the archive-type validation cannot
\* fail.  The temp path is named *.zip, the name alone gives the zip MIME
\* type and no probe is made; so the download phase never ends with the
\* not-a-compressed-archive failure: after a transfer that reported success
\* it fails only for a missing or empty file or an I/O error, and whenever
\* it succeeds the MIME type is the zip one, whatever bytes were written.
C19_PipelineValidationNeverFails ==
    \A p \in Procs :
        IsPipeline(p)
            => LET c == call[p]
               IN /\ ZipName(c.path)
                  /\ guess_type(c.path[2]) = "application/zip"
                  /\ c.validate
                  /\ c.probes = 0
                  /\ c.msg # <<"Download phase failed: ",
                               "Downloaded file is not a compressed archive">>
                  /\ c.dl = "ok" => c.mime = "application/zip"
                  /\ (c.dl = "fail" /\ c.xres = "ok")
                        => \/ c.msg = <<"Download phase failed: ",
                                        "Downloaded file is empty or missing">>
                           \/ c.msg = <<"Download phase failed: ", "Download failed: ", "OSError">>

\* Bytes that are no zip archive passed the download phase as a zip file
\* and were refused by the extraction phase.
C19_Witness ==
    \E p \in Procs :
        /\ IsPipeline(p) /\ Returned(p)
        /\ call[p].xres = "ok" /\ call[p].dl = "ok"
        /\ call[p].mime = "application/zip"
        /\ call[p].opened
        /\ call[p].exmsg = <<"Invalid or corrupted zip file">>

====
